---- MODULE Spec2Model ----
(***************************************************************************)
(* Microjet detection: Frame (frame.py) and Video.preprocess (video.py).   *)
(*                                                                         *)
(* Conventions of the model                                                *)
(*  - Python lists are sequences; Python index k is index k+1 here, so a   *)
(*    droplet [center_y, radius] is <<center_y, radius>> with pair[1] the  *)
(*    row and pair[2] the radius.                                          *)
(*  - Python floats are exact rationals <<num, den>> in lowest terms with  *)
(*    den > 0 (Rat).  np.pi is the rational PiNum/PiDen.  A radius         *)
(*    np.sqrt(area/np.pi) is kept in whole pixels, rounded down.           *)
(*  - The results of OpenCV on a contour (moments, contourArea, arcLength) *)
(*    are fields of the contour record: they are inputs of the program.    *)
(*  - Drawing on cimg and the Qt signals carry no measurement and are left *)
(*    out.                                                                 *)
(***************************************************************************)
EXTENDS Integers, Sequences, FiniteSets, TLC

VARIABLES
    \* Frame.frame_rate (class attribute, frame.py:17; set by start_video)
    frame_rate,
    \* one call of Frame.calculate_droplet_speed
    lists, prev_lists, si, closest_pairs, average_speed, spc,
    \* one call of Frame.detect_droplets_and_jet
    contours, ci, circles_num, radius_sum, droplet_list, jet_width, jet_length,
    radius_avg, dpc,
    \* the uploaded video file and the position of its decoder
    video, vid_pos,
    \* Video (video.py:29-33) and the locals of Video.preprocess
    frame_number, max_frames, information_array, prev_droplet_list,
    droplet_speed, vpc

speedVars == <<lists, prev_lists, si, closest_pairs, average_speed, spc>>
detectVars == <<contours, ci, circles_num, radius_sum, droplet_list, jet_width,
                jet_length, radius_avg, dpc>>
videoVars == <<video, vid_pos, frame_number, max_frames, information_array,
               prev_droplet_list, droplet_speed, vpc>>
vars == <<frame_rate, speedVars, detectVars, videoVars>>

\* ------------------------------------------------------------------ bounds
\* longest droplet list of a call of calculate_droplet_speed
MaxLen == 2
\* most contours of a frame in a call of detect_droplets_and_jet
MaxContours == 2
\* most frames of a video
MaxFrames == 3

\* --------------------------------------------------------------- rationals
Abs(n) == IF n < 0 THEN -n ELSE n
Min(a, b) == IF a <= b THEN a ELSE b

RECURSIVE GCD(_, _)
GCD(a, b) == IF b = 0 THEN a ELSE GCD(b, a % b)

\* n/d in lowest terms, d # 0
Rat(n, d) ==
    LET s == IF d < 0 THEN -1 ELSE 1
        g == GCD(Abs(n), Abs(d))
    IN  <<(s * n) \div g, (s * d) \div g>>
RatMul(x, y) == Rat(x[1] * y[1], x[2] * y[2])
RatDiv(x, y) == Rat(x[1] * y[2], x[2] * y[1])
RatSub(x, y) == Rat(x[1] * y[2] - y[1] * x[2], x[2] * y[2])
RatLeq(x, y) == x[1] * y[2] <= y[1] * x[2]
Zero == Rat(0, 1)

SeqsUpTo(S, n) == UNION {[1..k -> S] : k \in 0..n}

\* ------------------------------------------- Frame.calculate_droplet_speed
\* conversion = 0.000038 (frame.py:198)
ConversionNum == 38
ConversionDen == 1000000
conversion == Rat(ConversionNum, ConversionDen)

\* [pair for pair in reference_pairs if pair[0] > target_pair[0]]
FilteredNotAbove(reference_pairs, target_pair) ==
    SelectSeq(reference_pairs, LAMBDA pair : pair[1] >= target_pair[1])
filtered_pairs(reference_pairs, target_pair) ==
    SelectSeq(reference_pairs, LAMBDA pair : pair[1] > target_pair[1])

\* np.linalg.norm(pair - target_pair) squared: the square root is monotone, so
\* the order of the distances is the order of their squares
Dist2Rows(pair, target_pair) ==
    (pair[1] - target_pair[1]) * (pair[1] - target_pair[1])
Dist2(pair, target_pair) ==
    (pair[1] - target_pair[1]) * (pair[1] - target_pair[1])
    + (pair[2] - target_pair[2]) * (pair[2] - target_pair[2])

\* np.argmin(distances): the first index of a minimal distance
closest_index(filtered, target_pair) ==
    CHOOSE i \in 1..Len(filtered) :
        /\ \A j \in 1..Len(filtered) :
              Dist2(filtered[j], target_pair) >= Dist2(filtered[i], target_pair)
        /\ \A j \in 1..(i - 1) :
              Dist2(filtered[j], target_pair) > Dist2(filtered[i], target_pair)

\* the body of the loop over zip(target_pairs, reference_pairs), lines 181-191
SpeedLoopBody(pairs, target_pair, reference_pairs) ==
    LET filtered == filtered_pairs(reference_pairs, target_pair)
    IN  IF Len(filtered) # 0
        THEN Append(pairs,
                    <<target_pair[1],
                      filtered[closest_index(filtered, target_pair)][1]>>)
        ELSE pairs

\* the loop of lines 180-191 from position k (1-based) on
RECURSIVE AllTargetsLoopFrom(_, _, _, _)
AllTargetsLoopFrom(pairs, k, target_pairs, reference_pairs) ==
    IF k > Len(target_pairs)
    THEN pairs
    ELSE AllTargetsLoopFrom(
             SpeedLoopBody(pairs, target_pairs[k], reference_pairs),
             k + 1, target_pairs, reference_pairs)
RECURSIVE SpeedLoopFrom(_, _, _, _)
SpeedLoopFrom(pairs, k, target_pairs, reference_pairs) ==
    IF k > Min(Len(target_pairs), Len(reference_pairs))
    THEN pairs
    ELSE SpeedLoopFrom(SpeedLoopBody(pairs, target_pairs[k], reference_pairs),
                       k + 1, target_pairs, reference_pairs)

RECURSIVE SumAdvance(_)
SumAdvance(pairs) ==
    IF pairs = <<>> THEN 0
    ELSE (Head(pairs)[2] - Head(pairs)[1]) + SumAdvance(Tail(pairs))

\* lines 193-196: distance, the mean row advance (0 when no pair is recorded)
MeanNoDivide(pairs) ==
    Rat(SumAdvance(pairs), 1)
mean_distance(pairs) ==
    IF Len(pairs) > 0 THEN Rat(SumAdvance(pairs), Len(pairs)) ELSE Zero

\* line 199: 1 / Frame.frame_rate raises ZeroDivisionError when the rate is 0
RaisesOnlyWithPairs(pairs, rate) == rate = 0 /\ Len(pairs) > 0
RaisesWithoutPairs(pairs, rate) == rate = 0 \/ Len(pairs) = 0
SpeedRaises(pairs, rate) == rate = 0

\* line 199: (distance * conversion) / (1 / Frame.frame_rate), rate # 0
SpeedTimesPeriod(pairs, rate) ==
    RatMul(RatMul(mean_distance(pairs), conversion), Rat(1, rate))
speed_of(pairs, rate) ==
    RatDiv(RatMul(mean_distance(pairs), conversion), Rat(1, rate))

\* the whole call: [raised, value]
NoValue == <<0, 0>>
calculate_droplet_speed(target_pairs, reference_pairs, rate) ==
    LET pairs == SpeedLoopFrom(<<>>, 1, target_pairs, reference_pairs)
    IN  IF SpeedRaises(pairs, rate)
        THEN [raised |-> TRUE, value |-> NoValue]
        ELSE [raised |-> FALSE, value |-> speed_of(pairs, rate)]

\* ------------------------------------------- Frame.detect_droplets_and_jet
\* np.pi (frame.py:104, 124)
PiNum == 22
PiDen == 7

\* the least r with (r + 1)^2 > n: np.sqrt rounded down
ISqrt(n) == CHOOSE r \in 0..n : r * r <= n /\ (r + 1) * (r + 1) > n

\* detect_roundness, lines 100-105 (center_x only places the drawing)
detect_roundness(cnt) ==
    [roundness |-> Rat(4 * PiNum * cnt.area,
                       PiDen * cnt.perimeter * cnt.perimeter),
     area      |-> cnt.area,
     center_y  |-> cnt.m01 \div cnt.m00]

\* droplet_rad, lines 124-128: <<circles_num, radius_sum, radius>>
droplet_rad(area, num, sum) ==
    LET radius == ISqrt((area * PiDen) \div PiNum)
    IN  <<num + 1, sum + radius, radius>>

\* np.sort(x_vals), line 152
RECURSIVE Insert(_, _)
Insert(x, sorted) ==
    IF sorted = <<>> THEN <<x>>
    ELSE IF x <= Head(sorted) THEN <<x>> \o sorted
    ELSE <<Head(sorted)>> \o Insert(x, Tail(sorted))
RECURSIVE Sort(_)
Sort(xs) == IF xs = <<>> THEN <<>> ELSE Insert(Head(xs), Sort(Tail(xs)))

RECURSIVE SumSeq(_)
SumSeq(xs) == IF xs = <<>> THEN 0 ELSE Head(xs) + SumSeq(Tail(xs))

\* int(np.mean(xs)) of non-negative pixel columns, lines 156-157
IntMean(xs) == SumSeq(xs) \div Len(xs)

SeqMax(xs) == CHOOSE m \in {xs[i] : i \in 1..Len(xs)} :
                 \A i \in 1..Len(xs) : xs[i] <= m
SeqMin(xs) == CHOOSE m \in {xs[i] : i \in 1..Len(xs)} :
                 \A i \in 1..Len(xs) : xs[i] >= m

\* jet_width_length, lines 144-162, on the points <<x, y>> of the contour
\* (two points at least): <<jet_width, jet_length>>
jet_width_length(pts) ==
    LET ys          == [i \in 1..Len(pts) |-> pts[i][2]]
        x_vals      == Sort([i \in 1..Len(pts) |-> pts[i][1]])
        seperator   == Len(x_vals) \div 2
        first_half  == SubSeq(x_vals, 1, seperator)
        second_half == SubSeq(x_vals, seperator + 1, Len(x_vals))
        x_val_left  == IntMean(first_half)
        x_val_right == IntMean(second_half)
    IN  <<x_val_right - x_val_left, SeqMax(ys) - SeqMin(ys)>>

\* the two tests of lines 72 and 77
DropletRoundness == Rat(1, 2)
JetRoundness == Rat(3, 10)
AboveDropletRoundness(roundness) == ~RatLeq(roundness, DropletRoundness)
is_droplet(roundness) == RatLeq(DropletRoundness, roundness)
is_jet(roundness) == RatLeq(roundness, JetRoundness)

\* the body of the loop over the contours, lines 68-78, on the locals
\* st = [circles_num, radius_sum, droplet_list, jet_width, jet_length]
KeepFirstJet(st, cnt) ==
    IF cnt.m00 = 0 THEN st
    ELSE
      LET d   == detect_roundness(cnt)
          rad == droplet_rad(d.area, st.circles_num, st.radius_sum)
          st1 == IF is_droplet(d.roundness)
                 THEN [st EXCEPT !.circles_num = rad[1],
                                 !.radius_sum = rad[2],
                                 !.droplet_list = Append(@, <<d.center_y, rad[3]>>)]
                 ELSE st
          jet == jet_width_length(cnt.pts)
      IN  IF is_jet(d.roundness) /\ st.jet_width = 0 /\ st.jet_length = 0
          THEN [st1 EXCEPT !.jet_width = jet[1], !.jet_length = jet[2]]
          ELSE st1
DetectLoopBody(st, cnt) ==
    IF cnt.m00 = 0 THEN st
    ELSE
      LET d   == detect_roundness(cnt)
          rad == droplet_rad(d.area, st.circles_num, st.radius_sum)
          st1 == IF is_droplet(d.roundness)
                 THEN [st EXCEPT !.circles_num = rad[1],
                                 !.radius_sum = rad[2],
                                 !.droplet_list = Append(@, <<d.center_y, rad[3]>>)]
                 ELSE st
          jet == jet_width_length(cnt.pts)
      IN  IF is_jet(d.roundness)
          THEN [st1 EXCEPT !.jet_width = jet[1], !.jet_length = jet[2]]
          ELSE st1

\* lines 58-63
DetectStart ==
    [circles_num |-> 0, radius_sum |-> 0, droplet_list |-> <<>>,
     jet_width |-> 0, jet_length |-> 0]

RECURSIVE DetectLoopFrom(_, _, _)
DetectLoopFrom(st, k, cnts) ==
    IF k > Len(cnts) THEN st
    ELSE DetectLoopFrom(DetectLoopBody(st, cnts[k]), k + 1, cnts)

\* lines 80-81
RadiusAvgWholePixels(num, sum) ==
    IF num > 0 THEN Rat(sum \div num, 1) ELSE Zero
radius_avg_of(num, sum) ==
    IF num > 0 THEN Rat(sum, num) ELSE Zero

\* the whole call (cimg left out)
detect_droplets_and_jet(cnts) ==
    LET st == DetectLoopFrom(DetectStart, 1, cnts)
    IN  [droplet_list |-> st.droplet_list,
         radius_avg   |-> radius_avg_of(st.circles_num, st.radius_sum),
         jet_width    |-> st.jet_width,
         jet_length   |-> st.jet_length]

\* ------------------------------------------------- inputs of the detection
\* a contour as OpenCV describes it: moments m00 and m01, contourArea,
\* arcLength and the boundary points; the centre lies half a row below `row`
Cnt(area, row, pts) ==
    [m00 |-> area, m01 |-> area * row + area \div 2, area |-> area,
     perimeter |-> 220, pts |-> pts]

\* with perimeter 220: area 0 is degenerate, 500 has roundness 0.13, 1155 has
\* 0.3, 1156 and 1924 lie between 0.3 and 0.5, 1925 has 0.5, 2000 has 0.52
Areas == {0, 500, 1155, 1156, 1924, 1925, 2000}
CenterRows == {1, 2}
Boundaries ==
    { << <<0, 0>>, <<2, 0>>, <<2, 5>>, <<0, 5>> >>,
      << <<1, 1>>, <<5, 1>>, <<4, 7>> >> }
Contours == {Cnt(a, r, b) : a \in Areas, r \in CenterRows, b \in Boundaries}
ContourLists == SeqsUpTo(Contours, MaxContours)

\* ----------------------------------------------- inputs of the speed calls
Radii == {1, 3}
Rows == 0..3
Droplets == Rows \X Radii
FrameRates == {0, 1000}

DropletLists == SeqsUpTo(Droplets, MaxLen)

\* ------------------------------------------------------ Video.preprocess
\* Python's None is the empty tuple and a value x that may be None is <<x>>
None == <<>>
Some(x) == <<x>>

\* the frames a video file may hold: no image (the decoder delivers None), an
\* image without contour, with one droplet, with a droplet and a jet
VideoFrames ==
    { None,
      Some(<<>>),
      Some(<< Cnt(1925, 2, << <<0, 0>>, <<2, 0>>, <<2, 5>>, <<0, 5>> >>) >>),
      Some(<< Cnt(2000, 1, << <<0, 0>>, <<2, 0>>, <<2, 5>>, <<0, 5>> >>) >>),
      Some(<< Cnt(2000, 1, << <<0, 0>>, <<2, 0>>, <<2, 5>>, <<0, 5>> >>),
              Cnt(500, 1, << <<1, 1>>, <<5, 1>>, <<4, 7>> >>) >>) }
Videos == UNION {[1..k -> VideoFrames] : k \in 1..MaxFrames}

\* _, f = vid.read() (video.py:54) at decoder position pos: past the end of the
\* file the decoder delivers None
vid_read(pos) == IF pos < Len(video) THEN video[pos + 1] ELSE None

\* prev_droplet_list = droplet_list (video.py:61)
KeepPrevWhenEmpty(prev, list) == IF list = <<>> THEN prev ELSE Some(list)
next_prev_droplet_list(prev, list) == Some(list)

IdleVideo ==
    /\ video = <<>>
    /\ vid_pos = 0
    /\ frame_number = 0
    /\ max_frames = -1
    /\ information_array = <<>>
    /\ prev_droplet_list = None
    /\ droplet_speed = Zero
    /\ vpc = "off"

\* -------------------------- SpecSpeed: one call of calculate_droplet_speed
IdleDetect ==
    /\ contours = <<>>
    /\ ci = 1
    /\ circles_num = 0
    /\ radius_sum = 0
    /\ droplet_list = <<>>
    /\ jet_width = 0
    /\ jet_length = 0
    /\ radius_avg = Zero
    /\ dpc = "idle"

InitSpeed ==
    /\ IdleDetect
    /\ IdleVideo
    /\ frame_rate \in FrameRates
    /\ lists \in DropletLists
    /\ prev_lists \in DropletLists
    /\ si = 1
    /\ closest_pairs = <<>>
    /\ average_speed = NoValue
    /\ spc = "loop"

\* one iteration of the for loop, lines 180-191
SpeedLoop ==
    /\ spc = "loop"
    /\ si <= Min(Len(lists), Len(prev_lists))
    /\ closest_pairs' = SpeedLoopBody(closest_pairs, lists[si], prev_lists)
    /\ si' = si + 1
    /\ UNCHANGED <<frame_rate, lists, prev_lists, average_speed, spc, detectVars, videoVars>>

\* lines 193-200 with a nonzero frame rate
SpeedReturn ==
    /\ spc = "loop"
    /\ si > Min(Len(lists), Len(prev_lists))
    /\ ~SpeedRaises(closest_pairs, frame_rate)
    /\ average_speed' = speed_of(closest_pairs, frame_rate)
    /\ spc' = "returned"
    /\ UNCHANGED <<frame_rate, lists, prev_lists, si, closest_pairs, detectVars, videoVars>>

\* line 199 with Frame.frame_rate = 0: ZeroDivisionError
SpeedRaise ==
    /\ spc = "loop"
    /\ si > Min(Len(lists), Len(prev_lists))
    /\ SpeedRaises(closest_pairs, frame_rate)
    /\ spc' = "raised"
    /\ UNCHANGED <<frame_rate, lists, prev_lists, si, closest_pairs, average_speed,
                   detectVars, videoVars>>

NextSpeed == SpeedLoop \/ SpeedReturn \/ SpeedRaise
SpecSpeed == InitSpeed /\ [][NextSpeed]_vars

\* ---------------------- SpecDetect: one call of detect_droplets_and_jet
IdleSpeed ==
    /\ lists = <<>>
    /\ prev_lists = <<>>
    /\ si = 1
    /\ closest_pairs = <<>>
    /\ average_speed = NoValue
    /\ spc = "idle"

InitDetect ==
    /\ IdleSpeed
    /\ IdleVideo
    /\ frame_rate = 0
    /\ contours \in ContourLists
    /\ ci = 1
    /\ circles_num = 0
    /\ radius_sum = 0
    /\ droplet_list = <<>>
    /\ jet_width = 0
    /\ jet_length = 0
    /\ radius_avg = Zero
    /\ dpc = "loop"

DetectLocals ==
    [circles_num |-> circles_num, radius_sum |-> radius_sum,
     droplet_list |-> droplet_list, jet_width |-> jet_width,
     jet_length |-> jet_length]

\* one iteration of the loop over the contours, lines 67-78
DetectLoop ==
    /\ dpc = "loop"
    /\ ci <= Len(contours)
    /\ LET st == DetectLoopBody(DetectLocals, contours[ci])
       IN  /\ circles_num' = st.circles_num
           /\ radius_sum' = st.radius_sum
           /\ droplet_list' = st.droplet_list
           /\ jet_width' = st.jet_width
           /\ jet_length' = st.jet_length
    /\ ci' = ci + 1
    /\ UNCHANGED <<frame_rate, speedVars, videoVars, contours, radius_avg, dpc>>

\* lines 80-83
DetectReturn ==
    /\ dpc = "loop"
    /\ ci > Len(contours)
    /\ radius_avg' = radius_avg_of(circles_num, radius_sum)
    /\ dpc' = "returned"
    /\ UNCHANGED <<frame_rate, speedVars, videoVars, contours, ci, circles_num, radius_sum,
                   droplet_list, jet_width, jet_length>>

NextDetect == DetectLoop \/ DetectReturn
SpecDetect == InitDetect /\ [][NextDetect]_vars

\* ----------------------- Spec: a video is uploaded, started and preprocessed
\* Video.__init__ and Video.upload (video.py:26-34, 145-148)
Init ==
    /\ IdleSpeed
    /\ IdleDetect
    /\ frame_rate = 0
    /\ video \in Videos
    /\ vid_pos = 0
    /\ frame_number = 0
    /\ max_frames = -1
    /\ information_array = <<>>
    /\ prev_droplet_list = None
    /\ droplet_speed = Zero
    /\ vpc = "idle"

\* MyGUI.start_video (main.py:73-78): the frame rate typed by the user
start_video ==
    /\ vpc = "idle"
    /\ frame_rate' \in FrameRates
    /\ vpc' = "started"
    /\ UNCHANGED <<speedVars, detectVars, video, vid_pos, frame_number,
                   max_frames, information_array, prev_droplet_list,
                   droplet_speed>>

\* Video.run calls preprocess: video.py:44-48
PreprocessBegin ==
    /\ vpc = "started"
    /\ prev_droplet_list' = None
    /\ vid_pos' = 0
    /\ max_frames' = Len(video)
    /\ droplet_speed' = Zero
    /\ vpc' = "loop"
    /\ UNCHANGED <<frame_rate, speedVars, detectVars, video, frame_number,
                   information_array>>

\* one pass of the while loop, video.py:49-64, that ends with its record
PreprocessFrame ==
    /\ vpc = "loop"
    /\ frame_number < max_frames
    /\ vid_read(vid_pos) # None
    /\ LET f      == vid_read(vid_pos)
           det    == detect_droplets_and_jet(f[1])
           called == prev_droplet_list # None
           res    == calculate_droplet_speed(det.droplet_list,
                                             prev_droplet_list[1], frame_rate)
           speed  == IF called THEN res.value ELSE droplet_speed
       IN  /\ ~(called /\ res.raised)
           /\ droplet_speed' = speed
           /\ prev_droplet_list' =
                 next_prev_droplet_list(prev_droplet_list, det.droplet_list)
           /\ information_array' =
                 Append(information_array,
                        [f            |-> vid_pos + 1,
                         radius       |-> det.radius_avg,
                         droplet_speed |-> speed,
                         jet_width    |-> det.jet_width,
                         jet_length   |-> det.jet_length,
                         frame_number |-> frame_number + 1])
    /\ frame_number' = frame_number + 1
    /\ vid_pos' = vid_pos + 1
    /\ UNCHANGED <<frame_rate, speedVars, detectVars, video, max_frames, vpc>>

\* the pass in which the decoder delivers no image: Frame(None, threshold)
\* raises in cv.cvtColor (frame.py:38) and nothing catches it
PreprocessFrameNoImage ==
    /\ vpc = "loop"
    /\ frame_number < max_frames
    /\ vid_read(vid_pos) = None
    /\ frame_number' = frame_number + 1
    /\ vid_pos' = vid_pos + 1
    /\ vpc' = "raised"
    /\ UNCHANGED <<frame_rate, speedVars, detectVars, video, max_frames,
                   information_array, prev_droplet_list, droplet_speed>>

\* the pass in which calculate_droplet_speed raises (video.py:59, frame.py:199)
PreprocessFrameSpeedRaises ==
    /\ vpc = "loop"
    /\ frame_number < max_frames
    /\ vid_read(vid_pos) # None
    /\ prev_droplet_list # None
    /\ calculate_droplet_speed(
           detect_droplets_and_jet(vid_read(vid_pos)[1]).droplet_list,
           prev_droplet_list[1], frame_rate).raised
    /\ frame_number' = frame_number + 1
    /\ vid_pos' = vid_pos + 1
    /\ vpc' = "raised"
    /\ UNCHANGED <<frame_rate, speedVars, detectVars, video, max_frames,
                   information_array, prev_droplet_list, droplet_speed>>

\* the loop ends and save_data writes the records, video.py:49, 65
PreprocessEnd ==
    /\ vpc = "loop"
    /\ frame_number >= max_frames
    /\ vpc' = "done"
    /\ UNCHANGED <<frame_rate, speedVars, detectVars, video, vid_pos,
                   frame_number, max_frames, information_array,
                   prev_droplet_list, droplet_speed>>

Next ==
    \/ start_video
    \/ PreprocessBegin
    \/ PreprocessFrame
    \/ PreprocessFrameNoImage
    \/ PreprocessFrameSpeedRaises
    \/ PreprocessEnd
Spec == Init /\ [][Next]_vars

\* ------------- SpecGui: the same, with the video slider moved by the user
\* MyGUI.change_slider_value (main.py:124-137), run by the GUI thread while the
\* video thread is in the loop of preprocess: it writes Video.frame_number,
\* the counter of that loop.  The write lands between two passes of the loop
\* (a write inside a pass is one more behaviour of the program, not modelled).
change_slider_value ==
    /\ vpc = "loop"
    /\ \E new_frame_num \in 0..MaxFrames : frame_number' = new_frame_num
    /\ UNCHANGED <<frame_rate, speedVars, detectVars, video, vid_pos,
                   max_frames, information_array, prev_droplet_list,
                   droplet_speed, vpc>>

NextGui == Next \/ change_slider_value
SpecGui == Init /\ [][NextGui]_vars

\* ---------------------------------------- claims on calculate_droplet_speed
\* the previous list is the current list moved d rows down, radius kept
C2_Shifted(d) ==
    /\ Len(lists) > 0
    /\ Len(prev_lists) = Len(lists)
    /\ \A i \in 1..Len(lists) :
          prev_lists[i] = <<lists[i][1] + d, lists[i][2]>>
\* d * c * f
C2_Expected(d) == Rat(d * ConversionNum * frame_rate, ConversionDen)
\* no previous droplet lies strictly between a current droplet and its
\* counterpart d rows below
C2_NoneBetween(d) ==
    \A i \in 1..Len(lists) : \A j \in 1..Len(prev_lists) :
        ~(prev_lists[j][1] > lists[i][1] /\ prev_lists[j][1] < lists[i][1] + d)

\* C2 as stated: with every previous droplet exactly d > 0 rows below the
\* current droplet of its position (same radius) and a positive frame rate,
\* the returned speed is exactly d * c * f.
C2_Original ==
    \A d \in Rows \ {0} :
        (spc = "returned" /\ frame_rate > 0 /\ C2_Shifted(d))
            => average_speed = C2_Expected(d)

\* C2 amended: under the same premises the returned speed is positive and at
\* most d * c * f, and it is exactly d * c * f when no previous droplet has a
\* row strictly between a current droplet's row and that row + d.
C2_ShiftedSpeed ==
    \A d \in Rows \ {0} :
        (spc = "returned" /\ frame_rate > 0 /\ C2_Shifted(d))
            => /\ RatLeq(average_speed, C2_Expected(d))
               /\ ~RatLeq(average_speed, Zero)
               /\ C2_NoneBetween(d) => average_speed = C2_Expected(d)

\* two droplets moved two rows down with nothing in between: d * c * f returned
C2_Witness ==
    /\ spc = "returned"
    /\ frame_rate > 0
    /\ Len(lists) = 2
    /\ C2_Shifted(2)
    /\ C2_NoneBetween(2)
    /\ average_speed = C2_Expected(2)

\* squared Euclidean distance of two (row, radius) vectors
C3_SqDist(p, q) ==
    (p[1] - q[1]) * (p[1] - q[1]) + (p[2] - q[2]) * (p[2] - q[2])
\* positions of the previous list strictly below the target
C3_Candidates(target) ==
    {j \in 1..Len(prev_lists) : prev_lists[j][1] > target[1]}

\* C3: each iteration of the loop takes as candidates exactly the droplets of
\* the whole previous list with a row strictly greater than the target's; if
\* there is one, exactly one pair (target row, chosen row) is appended, the
\* chosen one being a candidate of minimal Euclidean distance in (row, radius);
\* if there is none, no pair is appended.
C3_NearestCandidate ==
    [][(spc = "loop" /\ si' = si + 1) =>
        LET target == lists[si]
            cand == C3_Candidates(target)
        IN  IF cand = {}
            THEN closest_pairs' = closest_pairs
            ELSE \E j \in cand :
                    /\ \A k \in cand :
                          C3_SqDist(prev_lists[j], target)
                              <= C3_SqDist(prev_lists[k], target)
                    /\ closest_pairs' =
                          Append(closest_pairs, <<target[1], prev_lists[j][1]>>)
      ]_vars

\* the first target had two candidates and the one chosen is not the one of
\* the nearest row: the radius decided
C3_Witness ==
    /\ spc = "loop"
    /\ si = 2
    /\ Len(closest_pairs) = 1
    /\ Cardinality(C3_Candidates(lists[1])) >= 2
    /\ \E j \in C3_Candidates(lists[1]) : prev_lists[j][1] < closest_pairs[1][2]

RECURSIVE C4_Advance(_, _)
C4_Advance(pairs, k) ==
    IF k = 0 THEN 0 ELSE (pairs[k][2] - pairs[k][1]) + C4_Advance(pairs, k - 1)

\* C4: with a positive frame rate the returned speed is
\* mean_row_advance * 0.000038 * frame_rate, the mean taken over the recorded
\* pairs and 0 without a pair (speed 0); previous [(50,3)], current [(40,3)]
\* at frame rate 1000 give 0.38.
C4_SpeedFormula ==
    /\ (spc = "returned" /\ frame_rate > 0) =>
          IF Len(closest_pairs) = 0
          THEN average_speed = Zero
          ELSE average_speed =
                  Rat(C4_Advance(closest_pairs, Len(closest_pairs))
                          * ConversionNum * frame_rate,
                      Len(closest_pairs) * ConversionDen)
    /\ calculate_droplet_speed(<< <<40, 3>> >>, << <<50, 3>> >>, 1000)
          = [raised |-> FALSE, value |-> Rat(38, 100)]

\* two pairs of different advance were recorded and the speed was returned
C4_Witness ==
    /\ spc = "returned"
    /\ frame_rate > 0
    /\ Len(closest_pairs) = 2
    /\ closest_pairs[1][2] - closest_pairs[1][1]
          # closest_pairs[2][2] - closest_pairs[2][1]

\* C5: with an empty previous list and a positive frame rate the call raises
\* nothing and returns speed 0, whatever the current list.
C5_EmptyPrevious ==
    (prev_lists = <<>> /\ frame_rate > 0) =>
        /\ spc # "raised"
        /\ spc = "returned" => average_speed = Zero
        /\ spc = "loop" => ENABLED SpeedReturn

C5_Witness ==
    /\ prev_lists = <<>>
    /\ Len(lists) = MaxLen
    /\ frame_rate > 0
    /\ spc = "returned"
    /\ average_speed = Zero

\* C6: with Frame.frame_rate = 0 no call returns a speed: whatever the lists,
\* the call ends in the error of line 199.
C6_ZeroRateRejected ==
    frame_rate = 0 =>
        /\ spc # "returned"
        /\ average_speed = NoValue
        /\ (spc = "loop" /\ si > Min(Len(lists), Len(prev_lists)))
              => ENABLED SpeedRaise

\* the call on two empty lists has raised
C6_Witness ==
    /\ frame_rate = 0
    /\ lists = <<>>
    /\ prev_lists = <<>>
    /\ spc = "raised"

\* the length of zip(lists, prev_lists)
C11_Paired == Min(Len(lists), Len(prev_lists))

\* C11 as stated: the entries of the current list and of the previous list
\* beyond the length of the shorter list are unused: the speed returned is the
\* speed of the two lists cut to that length.
C11_Original ==
    spc = "returned" =>
        average_speed =
            calculate_droplet_speed(SubSeq(lists, 1, C11_Paired),
                                    SubSeq(prev_lists, 1, C11_Paired),
                                    frame_rate).value

\* C11 amended: the targets are the current droplets at the positions up to
\* the length of the shorter list; the entries of the current list beyond the
\* length of the previous list are unused, so removing or replacing them
\* leaves the returned speed as it is (the entries of the previous list beyond
\* the length of the current list stay candidates of every target).
C11_CurrentTailUnused ==
    (spc = "returned" /\ Len(prev_lists) <= Len(lists)) =>
        \A tail \in SeqsUpTo(Droplets, MaxLen - Len(prev_lists)) :
            calculate_droplet_speed(
                SubSeq(lists, 1, Len(prev_lists)) \o tail,
                prev_lists, frame_rate).value = average_speed

\* the current list is longer than the previous one and its last droplet,
\* which is not a target, lies above a previous droplet
C11_Witness ==
    /\ spc = "returned"
    /\ Len(prev_lists) = 1
    /\ Len(lists) = 2
    /\ lists[2][1] < prev_lists[1][1]
    /\ lists[1][1] >= prev_lists[1][1]
    /\ closest_pairs = <<>>
    /\ average_speed = Zero

\* C14: every recorded pair has its chosen row strictly below (greater than)
\* its target row, and with a positive frame rate the returned speed is never
\* negative and is strictly positive exactly when a pair was recorded.
C14_SpeedSign ==
    /\ \A k \in 1..Len(closest_pairs) :
          closest_pairs[k][2] > closest_pairs[k][1]
    /\ (spc = "returned" /\ frame_rate > 0) =>
          /\ RatLeq(Zero, average_speed)
          /\ ~RatLeq(average_speed, Zero) <=> Len(closest_pairs) > 0

\* of two targets one found a droplet below it and one did not: the speed
\* returned is positive
C14_Witness ==
    /\ spc = "returned"
    /\ frame_rate > 0
    /\ Len(lists) = 2
    /\ Len(prev_lists) = 2
    /\ Len(closest_pairs) = 1
    /\ ~RatLeq(average_speed, Zero)

\* ----------------------------------------- claims on detect_droplets_and_jet
\* the droplet state and the jet measurement are left as they were
C1_DropletsKept ==
    /\ circles_num' = circles_num
    /\ radius_sum' = radius_sum
    /\ droplet_list' = droplet_list
C1_JetKept == jet_width' = jet_width /\ jet_length' = jet_length

\* C1: every contour of nonzero area is handled by its roundness
\* 4*pi*area/perimeter^2 alone, in exactly one way: >= 0.5 as a droplet (counted,
\* summed and appended, the jet measurement kept), <= 0.3 as a jet (measured,
\* the droplet state kept), in between as neither (nothing changes).
C1_Classification ==
    [][(dpc = "loop" /\ ci' = ci + 1 /\ contours[ci].m00 # 0) =>
        LET cnt    == contours[ci]
            num    == 4 * PiNum * cnt.area
            den    == PiDen * cnt.perimeter * cnt.perimeter
            radius == droplet_rad(cnt.area, 0, 0)[3]
        IN  CASE 2 * num >= den ->
                    /\ circles_num' = circles_num + 1
                    /\ radius_sum' = radius_sum + radius
                    /\ droplet_list' =
                          Append(droplet_list, <<cnt.m01 \div cnt.m00, radius>>)
                    /\ C1_JetKept
              [] 10 * num <= 3 * den ->
                    /\ C1_DropletsKept
                    /\ <<jet_width', jet_length'>> = jet_width_length(cnt.pts)
              [] OTHER -> C1_DropletsKept /\ C1_JetKept
      ]_vars

\* a contour of roundness exactly 0.5 was taken as a droplet and one of
\* roundness exactly 0.3 as the jet
C1_Witness ==
    /\ dpc = "loop"
    /\ ci = 3
    /\ 2 * 4 * PiNum * contours[1].area
          = PiDen * contours[1].perimeter * contours[1].perimeter
    /\ 10 * 4 * PiNum * contours[2].area
          = 3 * PiDen * contours[2].perimeter * contours[2].perimeter
    /\ Len(droplet_list) = 1
    /\ circles_num = 1
    /\ <<jet_width, jet_length>> = jet_width_length(contours[2].pts)
    /\ jet_length > 0

\* positions of the contours classified as droplets
C7_DropletPositions ==
    {i \in 1..Len(contours) :
        /\ contours[i].m00 # 0
        /\ 8 * PiNum * contours[i].area
              >= PiDen * contours[i].perimeter * contours[i].perimeter}
RECURSIVE C7_RadiusSum(_)
C7_RadiusSum(k) ==
    IF k = 0 THEN 0
    ELSE C7_RadiusSum(k - 1)
         + (IF k \in C7_DropletPositions
            THEN ISqrt((contours[k].area * PiDen) \div PiNum) ELSE 0)

\* C7: the average radius returned is the sum of the radii of the
\* droplet-classified contours divided by their number, that number is the
\* length of the returned droplet list, and the average is 0 without droplets.
C7_AverageRadius ==
    dpc = "returned" =>
        /\ Len(droplet_list) = Cardinality(C7_DropletPositions)
        /\ radius_avg =
              IF C7_DropletPositions = {} THEN Zero
              ELSE Rat(C7_RadiusSum(Len(contours)),
                       Cardinality(C7_DropletPositions))

\* two droplets of different radius: the average is no whole number
C7_Witness ==
    /\ dpc = "returned"
    /\ Len(droplet_list) = 2
    /\ droplet_list[1][2] # droplet_list[2][2]
    /\ radius_avg[2] = 2

\* C8 as stated: for a jet boundary of n >= 2 points the width is
\* mean(right half of the sorted columns) - mean(left half), the left half
\* being the first floor(n/2) columns.
C8_Original ==
    [][(/\ dpc = "loop"
        /\ ci' = ci + 1
        /\ contours[ci].m00 # 0
        /\ is_jet(detect_roundness(contours[ci]).roundness)) =>
        LET pts   == contours[ci].pts
            cols  == Sort([i \in 1..Len(pts) |-> pts[i][1]])
            half  == Len(cols) \div 2
            left  == SubSeq(cols, 1, half)
            right == SubSeq(cols, half + 1, Len(cols))
        IN  Rat(jet_width', 1)
              = RatSub(Rat(SumSeq(right), Len(right)), Rat(SumSeq(left), Len(left)))
      ]_vars

\* positions of the contours classified as jets
C12_JetPositions ==
    {i \in 1..Len(contours) :
        /\ contours[i].m00 # 0
        /\ 40 * PiNum * contours[i].area
              <= 3 * PiDen * contours[i].perimeter * contours[i].perimeter}
C12_LastJet == CHOOSE i \in C12_JetPositions : \A j \in C12_JetPositions : j <= i

\* C12: the jet width and length returned are the measurement of the last
\* jet-classified contour in contour order, whatever earlier jets measured, and
\* (0, 0) without a jet-classified contour; droplets and discarded contours
\* never change them.
C12_LastJetWins ==
    dpc = "returned" =>
        <<jet_width, jet_length>> =
            IF C12_JetPositions = {} THEN <<0, 0>>
            ELSE jet_width_length(contours[C12_LastJet].pts)

\* two jets of different measurement: the second one is returned
C12_Witness ==
    /\ dpc = "returned"
    /\ C12_JetPositions = {1, 2}
    /\ jet_width_length(contours[1].pts) # jet_width_length(contours[2].pts)
    /\ <<jet_width, jet_length>> = jet_width_length(contours[2].pts)

\* ---------------------------------------------- claims on Video.preprocess
\* the droplet list detected in the k-th frame of the video
C9_DropletList(k) == detect_droplets_and_jet(video[k][1]).droplet_list

\* C9: the speed recorded for the first frame is 0 and the speed recorded for
\* every later frame k is calculate_droplet_speed of frame k's droplet list
\* and the droplet list of frame k-1, also when frame k-1 has no droplet.
C9_SpeedFromPreviousFrame ==
    \A k \in 1..Len(information_array) :
        /\ information_array[k].f = k
        /\ information_array[k].droplet_speed =
              IF k = 1 THEN Zero
              ELSE calculate_droplet_speed(C9_DropletList(k),
                                           C9_DropletList(k - 1),
                                           frame_rate).value

\* three frames recorded: a droplet below, no droplet, a droplet above; the
\* third speed is 0 although the first frame's droplet lies below the third's
C9_Witness ==
    /\ vpc = "done"
    /\ Len(information_array) = 3
    /\ C9_DropletList(2) = <<>>
    /\ Len(C9_DropletList(1)) = 1
    /\ Len(C9_DropletList(3)) = 1
    /\ C9_DropletList(1)[1][1] > C9_DropletList(3)[1][1]
    /\ information_array[3].droplet_speed = Zero

\* C10 as stated: a failure on one frame does not stop the frames after it
\* from being processed and recorded: once preprocess has stopped, with a
\* positive frame rate every frame that has an image and comes after a frame
\* without image has its record.
C10_Original ==
    (vpc \in {"done", "raised"} /\ frame_rate > 0) =>
        \A k \in 1..Len(video) : \A j \in (k + 1)..Len(video) :
            (video[k] = None /\ video[j] # None) =>
                \E r \in 1..Len(information_array) : information_array[r].f = j

\* C13 as stated: when preprocess finishes, information_array holds exactly
\* one record per frame of the video, numbered 1..max_frames in increasing
\* order, record k built from the k-th decoded frame, whatever the GUI thread
\* wrote to Video.frame_number in between (stated for the videos whose frames
\* all decode to an image).
C13_Original ==
    (vpc = "done" /\ \A k \in 1..Len(video) : video[k] # None) =>
        /\ Len(information_array) = max_frames
        /\ \A k \in 1..Len(information_array) :
              /\ information_array[k].frame_number = k
              /\ information_array[k].f = k

====
